---- MODULE Spec2Model ----
(***************************************************************************)
(* Model of BRadar's plotutils.RadarAnim: construction of a playback       *)
(* session (time-marker generation) and the per-tick scheduler nextframe,  *)
(* over a RadarCache cursor.                                               *)
(*                                                                         *)
(* Timestamps and durations are integer milliseconds.  An optional value   *)
(* (Python None or a value) is a sequence of length 0 or 1.                *)
(***************************************************************************)
EXTENDS Integers, Sequences, FiniteSets, TLC

\* ---------------------------------------------------------------- bounds
MaxFrames == 3
MaxMarkers == 2
MaxTicks == 6
MaxAddAxes == 2
MaxGen == 10
MaxSteps == 5
MaxFirstFrame == 1

\* ------------------------------------------------------- program constants
MsPerSecond == 1000

\* ---------------------------------------------------------- input domains
None == <<>>
Some(v) == <<v>>
IsNone(o) == o = <<>>
Val(o) == o[1]

\* scan_time values the enumerated caches draw from
TimeVals == {0, 1000, 2000, 3000}
\* values the enumerated explicit time_markers draw from
MarkerVals == {0, 1000, 3000}
\* sps arguments: None, or a rate (data seconds per display second)
SpsArgs == {None, Some(-1), Some(0), Some(1), Some(2)}
\* FuncAnimation's interval keyword (milliseconds per display frame)
Intervals == {500, 1000}
Axes == {"ax1", "ax2"}
Kwargs == {"zorder", "alpha"}

SeqsUpTo(S, n) == UNION {[1..k -> S] : k \in 0..n}

\* the end-to-end scenario of the specification: 5 frames at 0..4 s, sps=2, fps=1
EndToEndFiles == <<0, 1000, 2000, 3000, 4000>>
\* the drop scenario: frames at 0,2,4,6 s and a first marker at 5 s
DropFiles == <<0, 2000, 4000, 6000>>
DropMarkers == <<5000, 7000>>
\* a session whose fifth tick goes round the whole cache
FullCircleFiles == <<0, 1000, 3000>>
FullCircleMarkers == <<2000, 3000, 500, 4000>>

VARIABLES
  pc,            \* "new" | "ready" | "failed" | "diverged" | "stopped", and for
                 \* a RadarDisplay "display_new" | "display"
  args,          \* the arguments RadarAnim is constructed with
  rd_files,      \* RadarCache: scan_time of every frame, in file order
  rd_curr,       \* RadarCache: cursor, 1..Len(rd_files)
  rd_cyclable,   \* RadarCache: cyclable flag
  startTime, endTime,
  ims, im_kwargs, new_axes, robust,
  sps, fps, interval, time_markers, save_count,
  frameindex,    \* the index the driver passes to the next nextframe call
  calls,         \* number of add_axes calls the application has yet to make
  registered,    \* every add_axes call made, in order, with the number of ticks before it
  firsts,        \* number of firstframe calls the application has yet to make
  first_log,     \* one record per firstframe call made
  display,       \* RadarDisplay: its fields and the next()/prev() calls made
  err,           \* the exception that ended construction or a call, or "none"
  log            \* one record per completed nextframe call

vars == <<pc, args, rd_files, rd_curr, rd_cyclable, startTime, endTime,
          ims, im_kwargs, new_axes, robust, sps, fps, interval,
          time_markers, save_count, frameindex, calls, registered,
          firsts, first_log, display, err, log>>

\* ------------------------------------------------------------ RadarCache
\* len(self._rd)
CacheLen == Len(rd_files)

\* scan_time of the frame at position c
TimeAt(c) == rd_files[c]

\* position peek_next() looks at: one ahead of c, wrapping at the end
NextPos(c) == IF c = CacheLen THEN 1 ELSE c + 1

\* position peek_prev() looks at: one behind c, wrapping at the start
PrevPos(c) == IF c = 1 THEN CacheLen ELSE c - 1

\* can next() move forward from c without failing
CanAdvance(c) == c < CacheLen \/ rd_cyclable

\* position after next() from c (when CanAdvance(c))
AdvancePos(c) == IF c < CacheLen THEN c + 1 ELSE 1


\* ------------------------------------------------------ marker generation
\* a rational number num/den (Python float arithmetic on exact inputs)
Rat(n, d) == [num |-> n, den |-> d]

\* self._fps = 1000.0 / self.event_source.interval
RateFps(ival) == Rat(MsPerSecond, ival)

\* timestep = timedelta(0, self._sps / self._fps), in milliseconds
Timestep(s, f) == (s * MsPerSecond * f.den) \div f.num

\* GenMarkers with the loop test currTime <= endTime
RECURSIVE GenMarkersInclusive(_, _, _, _)
GenMarkersInclusive(currTime, stopTime, timestep, acc) ==
  IF currTime <= stopTime
    THEN IF Len(acc) >= MaxGen
           THEN <<>>
           ELSE GenMarkersInclusive(currTime + timestep, stopTime, timestep,
                                    Append(acc, currTime + timestep))
    ELSE acc

\* GenMarkers appending currTime before it is stepped
RECURSIVE GenMarkersStale(_, _, _, _)
GenMarkersStale(currTime, stopTime, timestep, acc) ==
  IF currTime < stopTime
    THEN IF Len(acc) >= MaxGen
           THEN <<>>
           ELSE GenMarkersStale(currTime + timestep, stopTime, timestep,
                                Append(acc, currTime))
    ELSE acc

\* the while loop of lines 198-202: acc is self.time_markers, currTime its last
\* entry; <<>> when the list outgrows MaxGen (the loop does not come to an end)
RECURSIVE GenMarkers(_, _, _, _)
GenMarkers(currTime, stopTime, timestep, acc) ==
  IF currTime < stopTime
    THEN IF Len(acc) >= MaxGen
           THEN <<>>
           ELSE GenMarkers(currTime + timestep, stopTime, timestep,
                           Append(acc, currTime + timestep))
    ELSE acc

\* ExplicitError without the division by a zero span
ExplicitErrorNoSpan(m, s) ==
  IF Len(m) = 0 THEN "IndexError"
  ELSE IF IsNone(s) THEN "TypeError"
  ELSE IF Val(s) = 0 THEN "ZeroDivisionError"
  ELSE "none"

\* the exception lines 209-211 raise for explicit markers m and rate s, or "none"
ExplicitError(m, s) ==
  IF Len(m) = 0 THEN "IndexError"
  ELSE IF IsNone(s) THEN "TypeError"
  ELSE IF Val(s) = 0 THEN "ZeroDivisionError"
  ELSE IF m[Len(m)] - m[1] = 0 THEN "ZeroDivisionError"
  ELSE "none"

\* self._fps = (len(time_markers) - 1) / (span.total_seconds() / self._sps)
ExplicitFps(m, s) == Rat((Len(m) - 1) * s * MsPerSecond, m[Len(m)] - m[1])

\* self.event_source.interval = 1000.0 / self._fps
ExplicitInterval(f) == Rat(MsPerSecond * f.den, f.num)

\* ------------------------------------------------------------------ Init
ArgsOf(files, cyc, s, m, ival, rob) ==
  [files |-> files, cyclable |-> cyc, sps |-> s, time_markers |-> m,
   interval |-> ival, robust |-> rob]

\* sessions enumerated for the scheduler: every cache and every rate or
\* explicit marker list of the input domains, no add_axes call
SchedulerArgs(cycs) ==
  { ArgsOf(f, c, s, m, i, FALSE) :
      f \in SeqsUpTo(TimeVals, MaxFrames) \ {<<>>},
      c \in cycs,
      s \in SpsArgs,
      m \in {None},
      i \in Intervals }
  \cup
  { ArgsOf(f, c, s, Some(m), 1000, FALSE) :
      f \in SeqsUpTo(TimeVals, MaxFrames) \ {<<>>},
      c \in cycs,
      s \in SpsArgs,
      m \in SeqsUpTo(MarkerVals, MaxMarkers) }

\* the scenarios the specification works through, and the full-circle session
ScenarioArgs(cycs) ==
  { ArgsOf(EndToEndFiles, c, Some(2), None, 1000, FALSE) : c \in cycs }
  \cup { ArgsOf(DropFiles, c, Some(1), Some(DropMarkers), 1000, FALSE) : c \in cycs }
  \cup { ArgsOf(FullCircleFiles, c, Some(1), Some(FullCircleMarkers), 1000, FALSE) :
           c \in cycs }

\* sessions enumerated for the drawing: a few caches and rates, both render
\* modes, and up to MaxAddAxes add_axes calls made at any time
RenderFiles == {<<0>>, <<0, 1000, 2000>>}
RenderArgs(cycs) ==
  { ArgsOf(f, c, s, None, i, r) :
      f \in RenderFiles, c \in cycs, s \in {None, Some(1)},
      i \in Intervals, r \in BOOLEAN }

\* sessions enumerated for firstframe: a few caches, sorted and not, every
\* explicit marker list, and up to MaxFirstFrame firstframe calls made at any
\* time
FirstFrameFiles == {<<0>>, <<1000, 0>>, <<0, 1000, 2000>>}
FirstFrameArgs(cycs) ==
  { ArgsOf(f, c, s, m, 1000, FALSE) :
      f \in FirstFrameFiles, c \in cycs, s \in {None, Some(1)},
      m \in {None} \cup {Some(q) : q \in SeqsUpTo(MarkerVals, MaxMarkers) \ {<<>>}} }

InitWith(cycs) ==
  /\ \/ /\ args \in SchedulerArgs(cycs) \cup ScenarioArgs(cycs)
        /\ calls = 0
        /\ firsts = 0
     \/ /\ args \in RenderArgs(cycs)
        /\ calls \in 0..MaxAddAxes
        /\ firsts = 0
     \/ /\ args \in RenderArgs(cycs)
        /\ calls \in {0, 1}
        /\ firsts \in 1..MaxFirstFrame
     \/ /\ args \in FirstFrameArgs(cycs)
        /\ calls = 0
        /\ firsts \in 1..MaxFirstFrame
  /\ pc = "new"
  /\ rd_files = args.files
  /\ rd_curr = 0
  /\ rd_cyclable = args.cyclable
  /\ startTime = None /\ endTime = None
  /\ ims = <<>> /\ im_kwargs = <<>> /\ new_axes = <<>>
  /\ robust = args.robust
  /\ sps = None /\ fps = None /\ interval = None
  /\ time_markers = None /\ save_count = 0
  /\ frameindex = 0 /\ err = "none" /\ log = <<>>
  /\ registered = <<>>
  /\ first_log = <<>>
  /\ display = None

\* RadarAnim(fig, files, cyclable=True ...): line 171 always passes cyclable=True
Init == InitWith({TRUE})

\* the same sessions over a cache of either kind
InitAnyCache == InitWith(BOOLEAN)

\* -------------------------------------------------------------- __init__
Construct ==
  /\ pc = "new"
  /\ rd_curr' = 1
  /\ startTime' = Some(TimeAt(1))
  /\ endTime' = Some(TimeAt(PrevPos(1)))
  /\ ims' = <<>> /\ im_kwargs' = <<>> /\ new_axes' = <<>>
  /\ robust' = args.robust
  /\ sps' = args.sps
  /\ IF IsNone(args.time_markers)
       THEN LET f == RateFps(args.interval) IN
            /\ fps' = Some(f)
            /\ interval' = Some(Rat(args.interval, 1))
            /\ IF ~IsNone(args.sps)
                 THEN LET gen == GenMarkers(TimeAt(1), TimeAt(PrevPos(1)),
                                            Timestep(Val(args.sps), f),
                                            <<TimeAt(1)>>)
                      IN IF gen = <<>>
                           THEN /\ pc' = "diverged"
                                /\ time_markers' = None
                                /\ save_count' = 0
                                /\ err' = "none"
                           ELSE /\ pc' = "ready"
                                /\ time_markers' = Some(gen)
                                /\ save_count' = Len(gen)
                                /\ err' = "none"
                 ELSE /\ pc' = "ready"
                      /\ time_markers' = None
                      /\ save_count' = CacheLen
                      /\ err' = "none"
       ELSE LET m == Val(args.time_markers)
                e == ExplicitError(m, args.sps)
            IN /\ time_markers' = Some(m)
               /\ err' = e
               /\ IF e = "none"
                    THEN LET f == ExplicitFps(m, Val(args.sps)) IN
                         /\ pc' = "ready"
                         /\ fps' = Some(f)
                         /\ interval' = Some(ExplicitInterval(f))
                         /\ save_count' = Len(m)
                    ELSE /\ pc' = "failed"
                         /\ fps' = None
                         /\ interval' = Some(Rat(args.interval, 1))
                         /\ save_count' = 0
  /\ UNCHANGED <<args, rd_files, rd_cyclable, frameindex, calls, registered,
                 firsts, first_log, display, log>>

\* ------------------------------------------------------------- nextframe
\* frametime = self.time_markers[frameindex % self.save_count]
FrameTime(fi) == Val(time_markers)[(fi % save_count) + 1]

\* IsCycleTick missing the end of the first cycle
IsCycleTickLate(fi) == fi % save_count = 0 /\ fi > save_count

\* frameindex % self.save_count == 0 and frameindex > 0
IsCycleTick(fi) == fi % save_count = 0 /\ fi > 0

\* CycleReset with the loop test startTime < curr_time < endTime
RECURSIVE CycleResetStrictEnd(_, _)
CycleResetStrictEnd(c, n) ==
  IF Val(startTime) < TimeAt(c) /\ TimeAt(c) < Val(endTime)
    THEN IF CanAdvance(c)
           THEN CycleResetStrictEnd(AdvancePos(c), n + 1)
           ELSE [pos |-> c, steps |-> n, ok |-> FALSE]
    ELSE [pos |-> c, steps |-> n, ok |-> TRUE]

\* while self.startTime < self.curr_time <= self.endTime : self._rd.next()
\* from cursor c after n steps; ok is FALSE when next() raised
RECURSIVE CycleReset(_, _)
CycleReset(c, n) ==
  IF Val(startTime) < TimeAt(c) /\ TimeAt(c) <= Val(endTime)
    THEN IF CanAdvance(c)
           THEN CycleReset(AdvancePos(c), n + 1)
           ELSE [pos |-> c, steps |-> n, ok |-> FALSE]
    ELSE [pos |-> c, steps |-> n, ok |-> TRUE]

\* DropFrames with the loop test next_time <= frametime < endTime
RECURSIVE DropFramesInclusive(_, _, _)
DropFramesInclusive(c, frametime, n) ==
  IF TimeAt(NextPos(c)) <= frametime /\ frametime < Val(endTime)
    THEN IF CanAdvance(c)
           THEN DropFramesInclusive(AdvancePos(c), frametime, n + 1)
           ELSE [pos |-> c, steps |-> n, ok |-> FALSE]
    ELSE [pos |-> c, steps |-> n, ok |-> TRUE]

\* DropFrames with the loop test next_time < frametime <= endTime
RECURSIVE DropFramesToEnd(_, _, _)
DropFramesToEnd(c, frametime, n) ==
  IF TimeAt(NextPos(c)) < frametime /\ frametime <= Val(endTime)
    THEN IF CanAdvance(c)
           THEN DropFramesToEnd(AdvancePos(c), frametime, n + 1)
           ELSE [pos |-> c, steps |-> n, ok |-> FALSE]
    ELSE [pos |-> c, steps |-> n, ok |-> TRUE]

\* while self.next_time < frametime < self.endTime : self._rd.next()
RECURSIVE DropFrames(_, _, _)
DropFrames(c, frametime, n) ==
  IF TimeAt(NextPos(c)) < frametime /\ frametime < Val(endTime)
    THEN IF CanAdvance(c)
           THEN DropFrames(AdvancePos(c), frametime, n + 1)
           ELSE [pos |-> c, steps |-> n, ok |-> FALSE]
    ELSE [pos |-> c, steps |-> n, ok |-> TRUE]

Outcome(d, ft, c0, c1, r, c2, k, c3, shown) ==
  [decision |-> d,        \* "Advance" (returns self._ims) | "Hold" (returns None) | "Error"
   frametime |-> ft,      \* None in unsynchronized mode
   from |-> c0,           \* cursor when the call began
   afterReset |-> c1,     \* cursor when the CycleReset loop ended
   reset |-> r,           \* next() calls made by the CycleReset loop
   afterDrop |-> c2,      \* cursor when the Drop loop ended
   dropped |-> k,         \* next() calls made by the Drop loop
   to |-> c3,             \* cursor when the call ended
   rendered |-> shown]    \* position of the frame drawn, 0 when none was

\* AdvanceFrom drawing the frame under the cursor before moving on
AdvanceFromCurrent(ft, c0, c1, r, c2, k) ==
  IF CanAdvance(c2)
    THEN Outcome("Advance", ft, c0, c1, r, c2, k, AdvancePos(c2), c2)
    ELSE Outcome("Error", ft, c0, c1, r, c2, k, c2, 0)

\* AdvanceFrom holding on the last frame instead of wrapping
AdvanceFromHoldAtEnd(ft, c0, c1, r, c2, k) ==
  IF c2 < CacheLen
    THEN Outcome("Advance", ft, c0, c1, r, c2, k, c2 + 1, c2 + 1)
    ELSE Outcome("Hold", ft, c0, c1, r, c2, k, c2, 0)

\* data = next(self._rd) at the head of _advance_anim, then the drawing
AdvanceFrom(ft, c0, c1, r, c2, k) ==
  IF CanAdvance(c2)
    THEN Outcome("Advance", ft, c0, c1, r, c2, k, AdvancePos(c2), AdvancePos(c2))
    ELSE Outcome("Error", ft, c0, c1, r, c2, k, c2, 0)

\* SyncFrom with the strict test frametime > curr_time
SyncFromStrict(ft, c0, c1, r) ==
  IF ft > TimeAt(c1)
    THEN LET d == DropFrames(c1, ft, 0) IN
         IF d.ok
           THEN AdvanceFrom(Some(ft), c0, c1, r, d.pos, d.steps)
           ELSE Outcome("Error", Some(ft), c0, c1, r, d.pos, d.steps, d.pos, 0)
    ELSE Outcome("Hold", Some(ft), c0, c1, r, c1, 0, c1, 0)

\* SyncFrom calling next() before it decides to hold
SyncFromHoldMoves(ft, c0, c1, r) ==
  IF ft >= TimeAt(c1)
    THEN LET d == DropFrames(c1, ft, 0) IN
         IF d.ok
           THEN AdvanceFrom(Some(ft), c0, c1, r, d.pos, d.steps)
           ELSE Outcome("Error", Some(ft), c0, c1, r, d.pos, d.steps, d.pos, 0)
    ELSE Outcome("Hold", Some(ft), c0, c1, r, c1, 0, NextPos(c1), 0)

\* lines 314-324, from the cursor c1 the CycleReset loop left
SyncFrom(ft, c0, c1, r) ==
  IF ft >= TimeAt(c1)
    THEN LET d == DropFrames(c1, ft, 0) IN
         IF d.ok
           THEN AdvanceFrom(Some(ft), c0, c1, r, d.pos, d.steps)
           ELSE Outcome("Error", Some(ft), c0, c1, r, d.pos, d.steps, d.pos, 0)
    ELSE Outcome("Hold", Some(ft), c0, c1, r, c1, 0, c1, 0)

\* NextFrame without the test frametime > endTime
NextFrameNoOverrun(fi, c) ==
  IF IsNone(time_markers)
    THEN AdvanceFrom(None, c, c, 0, c, 0)
    ELSE LET ft == FrameTime(fi) IN
         IF IsCycleTick(fi)
           THEN LET cr == CycleReset(c, 0) IN
                IF cr.ok
                  THEN SyncFrom(ft, c, cr.pos, cr.steps)
                  ELSE Outcome("Error", Some(ft), c, cr.pos, cr.steps,
                               cr.pos, 0, cr.pos, 0)
           ELSE SyncFrom(ft, c, c, 0)

\* NextFrame with the test frametime >= endTime
NextFrameOverrunInclusive(fi, c) ==
  IF IsNone(time_markers)
    THEN AdvanceFrom(None, c, c, 0, c, 0)
    ELSE LET ft == FrameTime(fi) IN
         IF ft >= Val(endTime)
           THEN Outcome("Hold", Some(ft), c, c, 0, c, 0, c, 0)
           ELSE IF IsCycleTick(fi)
                  THEN LET cr == CycleReset(c, 0) IN
                       IF cr.ok
                         THEN SyncFrom(ft, c, cr.pos, cr.steps)
                         ELSE Outcome("Error", Some(ft), c, cr.pos, cr.steps,
                                      cr.pos, 0, cr.pos, 0)
                  ELSE SyncFrom(ft, c, c, 0)

\* nextframe(frameindex) with the cursor on c
NextFrame(fi, c) ==
  IF IsNone(time_markers)
    THEN AdvanceFrom(None, c, c, 0, c, 0)
    ELSE LET ft == FrameTime(fi) IN
         IF ft > Val(endTime)
           THEN Outcome("Hold", Some(ft), c, c, 0, c, 0, c, 0)
           ELSE IF IsCycleTick(fi)
                  THEN LET cr == CycleReset(c, 0) IN
                       IF cr.ok
                         THEN SyncFrom(ft, c, cr.pos, cr.steps)
                         ELSE Outcome("Error", Some(ft), c, cr.pos, cr.steps,
                                      cr.pos, 0, cr.pos, 0)
                  ELSE SyncFrom(ft, c, c, 0)

\* --------------------------------------------------------- _advance_anim
\* a render object: the Axes it is on, the keywords it was made with, the
\* position of the frame whose values it shows, and the position of the frame
\* whose lats and lons it was drawn on
Im(ax, kw, p) == [axes |-> ax, kwargs |-> kw, frame |-> p, grid |-> p]

\* SetArrays leaving the render objects on the frame they showed
SetArraysKeep(images, p) == images

\* im.set_array(data[...]) for every im of self._ims
SetArrays(images, p) == [i \in 1..Len(images) |-> [images[i] EXCEPT !.frame = p]]

\* Requeue giving every render object the keywords of the first one
RECURSIVE RequeueFirstKwargs(_, _, _, _)
RequeueFirstKwargs(queue, images, kws, i) ==
  IF i > Len(images) \/ i > Len(kws)
    THEN queue
    ELSE RequeueFirstKwargs(Append(queue, <<images[i].axes, kws[1]>>), images, kws, i + 1)

\* zip(self._ims, self._im_kwargs) appended to self._new_axes, in order
RECURSIVE Requeue(_, _, _, _)
Requeue(queue, images, kws, i) ==
  IF i > Len(images) \/ i > Len(kws)
    THEN queue
    ELSE Requeue(Append(queue, <<images[i].axes, kws[i]>>), images, kws, i + 1)

\* for ax, kwargs in self._new_axes : self._ims.append(MakeReflectPPI(...))
RECURSIVE DrawQueued(_, _, _, _)
DrawQueued(images, queue, p, i) ==
  IF i > Len(queue)
    THEN images
    ELSE DrawQueued(Append(images, Im(queue[i][1], queue[i][2], p)), queue, p, i + 1)

\* for ax, kwargs in self._new_axes : self._im_kwargs.append(kwargs)
RECURSIVE KeepKwargs(_, _, _)
KeepKwargs(kws, queue, i) ==
  IF i > Len(queue)
    THEN kws
    ELSE KeepKwargs(Append(kws, queue[i][2]), queue, i + 1)

\* DrawQueue forgetting the queued axes when the render objects are kept
DrawQueueRobustOnly == IF robust THEN Requeue(new_axes, ims, im_kwargs, 1) ELSE <<>>

\* the queue the drawing loop of lines 276-281 walks
DrawQueue == IF robust THEN Requeue(new_axes, ims, im_kwargs, 1) ELSE new_axes

\* self._ims after _advance_anim drew the frame at position p
ImsAfter(p) == DrawQueued(IF robust THEN <<>> ELSE SetArrays(ims, p), DrawQueue, p, 1)

\* self._im_kwargs after _advance_anim
KwargsAfter == KeepKwargs(IF robust THEN <<>> ELSE im_kwargs, DrawQueue, 1)

\* ---------------------------------------------------------------- actions
\* one call of nextframe by the animation driver, with the next frame index
Tick ==
  /\ pc = "ready"
  /\ frameindex < MaxTicks
  /\ LET o == NextFrame(frameindex, rd_curr) IN
     /\ rd_curr' = o.to
     /\ log' = Append(log, o)
     /\ IF o.decision = "Advance"
          THEN /\ ims' = ImsAfter(o.rendered)
               /\ im_kwargs' = KwargsAfter
               /\ new_axes' = <<>>
          ELSE UNCHANGED <<ims, im_kwargs, new_axes>>
     /\ IF o.decision = "Error"
          THEN pc' = "stopped" /\ err' = "StopIteration"
          ELSE UNCHANGED <<pc, err>>
  /\ frameindex' = frameindex + 1
  /\ UNCHANGED <<args, rd_files, rd_cyclable, startTime, endTime, robust,
                 sps, fps, interval, time_markers, save_count, calls, registered,
                 firsts, first_log, display>>

\* add_axes(ax, **kwargs)
AddAxes(ax, kw) ==
  /\ pc = "ready"
  /\ calls > 0
  /\ new_axes' = Append(new_axes, <<ax, kw>>)
  /\ calls' = calls - 1
  /\ registered' = Append(registered, [axes |-> ax, kwargs |-> kw, at |-> frameindex])
  /\ UNCHANGED <<pc, args, rd_files, rd_curr, rd_cyclable, startTime, endTime,
                 ims, im_kwargs, robust, sps, fps, interval, time_markers,
                 save_count, frameindex, firsts, first_log, display, err, log>>

\* firstframe(): _advance_anim() whatever the markers say; the call is not
\* a nextframe call and leaves the driver's frame index alone
FirstFrame ==
  /\ pc = "ready"
  /\ firsts > 0
  /\ firsts' = firsts - 1
  /\ LET o == AdvanceFrom(None, rd_curr, rd_curr, 0, rd_curr, 0) IN
     /\ rd_curr' = o.to
     /\ first_log' = Append(first_log,
                            [at |-> frameindex, seq |-> Len(registered),
                             decision |-> o.decision, from |-> o.from,
                             to |-> o.to, rendered |-> o.rendered])
     /\ IF o.decision = "Advance"
          THEN /\ ims' = ImsAfter(o.rendered)
               /\ im_kwargs' = KwargsAfter
               /\ new_axes' = <<>>
               /\ UNCHANGED <<pc, err>>
          ELSE /\ pc' = "stopped" /\ err' = "StopIteration"
               /\ UNCHANGED <<ims, im_kwargs, new_axes>>
  /\ UNCHANGED <<args, rd_files, rd_cyclable, startTime, endTime, robust,
                 sps, fps, interval, time_markers, save_count, frameindex,
                 calls, registered, display, log>>

Next ==
  \/ Construct
  \/ Tick
  \/ FirstFrame
  \/ \E ax \in Axes, kw \in Kwargs : AddAxes(ax, kw)

Spec == Init /\ [][Next]_vars

SpecAnyCache == InitAnyCache /\ [][Next]_vars

\* ----------------------------------------------------------- RadarDisplay
\* can prev() move back from c without failing
CanRetreat(c) == c > 1 \/ rd_cyclable

\* the caches a RadarDisplay is made over: just built, of either kind
InitDisplay ==
  /\ pc = "display_new"
  /\ rd_files \in SeqsUpTo(TimeVals, MaxFrames) \ {<<>>}
  /\ rd_cyclable \in BOOLEAN
  /\ rd_curr = 1
  /\ args = [files |-> rd_files, cyclable |-> rd_cyclable]
  /\ display = None
  /\ startTime = None /\ endTime = None
  /\ ims = <<>> /\ im_kwargs = <<>> /\ new_axes = <<>>
  /\ robust = FALSE
  /\ sps = None /\ fps = None /\ interval = None
  /\ time_markers = None /\ save_count = 0
  /\ frameindex = 0 /\ calls = 0 /\ registered = <<>>
  /\ firsts = 0 /\ first_log = <<>>
  /\ err = "none" /\ log = <<>>

\* refresh_display(): the frame under the cursor c drawn, its time kept
Refreshed(d, c) == [d EXCEPT !.shown = c, !.curr_time = Some(TimeAt(c))]

\* RadarDisplay(ax, radarData)
DisplayConstruct ==
  /\ pc = "display_new"
  /\ pc' = "display"
  /\ display' = Refreshed([frameIndex |-> 0, shown |-> 0, curr_time |-> None,
                           forward |-> 0, backward |-> 0, refused |-> 0], rd_curr)
  /\ UNCHANGED <<args, rd_files, rd_curr, rd_cyclable, startTime, endTime,
                 ims, im_kwargs, new_axes, robust, sps, fps, interval,
                 time_markers, save_count, frameindex, calls, registered,
                 firsts, first_log, err, log>>

\* the number of next() and prev() calls made on the display
StepsMade == display.forward + display.backward + display.refused

\* NextGuard letting the index reach len(self.radarData)
NextGuardInclusive(fi) == (fi + 1) <= CacheLen

\* (self.frameIndex + 1) <= (len(self.radarData) - 1)
NextGuard(fi) == (fi + 1) <= (CacheLen - 1)

\* 0 <= (self.frameIndex - 1)
PrevGuard(fi) == 0 <= (fi - 1)

\* RadarDisplay.next()
DisplayNext ==
  /\ pc = "display"
  /\ StepsMade < MaxSteps
  /\ IF NextGuard(display.frameIndex)
       THEN IF CanAdvance(rd_curr)
              THEN /\ rd_curr' = AdvancePos(rd_curr)
                   /\ display' = Refreshed([display EXCEPT
                                              !.frameIndex = @ + 1,
                                              !.forward = @ + 1],
                                           AdvancePos(rd_curr))
                   /\ UNCHANGED <<pc, err>>
              ELSE /\ pc' = "stopped" /\ err' = "StopIteration"
                   /\ UNCHANGED <<rd_curr, display>>
       ELSE /\ display' = [display EXCEPT !.refused = @ + 1]
            /\ UNCHANGED <<pc, err, rd_curr>>
  /\ UNCHANGED <<args, rd_files, rd_cyclable, startTime, endTime,
                 ims, im_kwargs, new_axes, robust, sps, fps, interval,
                 time_markers, save_count, frameindex, calls, registered,
                 firsts, first_log, log>>

\* RadarDisplay.prev()
DisplayPrev ==
  /\ pc = "display"
  /\ StepsMade < MaxSteps
  /\ IF PrevGuard(display.frameIndex)
       THEN IF CanRetreat(rd_curr)
              THEN /\ rd_curr' = PrevPos(rd_curr)
                   /\ display' = Refreshed([display EXCEPT
                                              !.frameIndex = @ - 1,
                                              !.backward = @ + 1],
                                           PrevPos(rd_curr))
                   /\ UNCHANGED <<pc, err>>
              ELSE /\ pc' = "stopped" /\ err' = "StopIteration"
                   /\ UNCHANGED <<rd_curr, display>>
       ELSE /\ display' = [display EXCEPT !.refused = @ + 1]
            /\ UNCHANGED <<pc, err, rd_curr>>
  /\ UNCHANGED <<args, rd_files, rd_cyclable, startTime, endTime,
                 ims, im_kwargs, new_axes, robust, sps, fps, interval,
                 time_markers, save_count, frameindex, calls, registered,
                 firsts, first_log, log>>

NextDisplay ==
  \/ DisplayConstruct
  \/ DisplayNext
  \/ DisplayPrev

SpecDisplay == InitDisplay /\ [][NextDisplay]_vars

\* ================================================================ claims
\* construction completed and gave a session
Constructed == pc \in {"ready", "stopped"}
\* the session was built from a rate (sps given, no explicit markers)
RateDerived == IsNone(args.time_markers) /\ ~IsNone(args.sps)
\* the session was built from explicit markers
Explicit == ~IsNone(args.time_markers)
\* the session has no markers: one cache frame per tick
Unsynchronized == IsNone(args.time_markers) /\ IsNone(args.sps)
Markers == Val(time_markers)
IsEndToEnd == args.files = EndToEndFiles /\ args.sps = Some(2)
              /\ IsNone(args.time_markers) /\ args.interval = 1000
IsDropScenario == args.files = DropFiles /\ args.time_markers = Some(DropMarkers)
StrictlyIncreasing(q) == \A i \in 1..(Len(q) - 1) : q[i] < q[i + 1]
NonDecreasing(q) == \A i \in 1..(Len(q) - 1) : q[i] <= q[i + 1]
\* the marker tick number i (the call nextframe(i - 1)) looks up
MarkerOfTick(i) == Markers[((i - 1) % save_count) + 1]

\* the rate, when one is given, is positive
ValidRate == IsNone(args.sps) \/ Val(args.sps) > 0

\* ---- C2
\* C2 as stated: a rate-derived marker sequence starts at startTime, steps by
\* sps/fps and ends with the first marker that is past endTime; for the
\* end-to-end scenario it is [0,2,4,6] s with save_count 4.
C2_Original ==
  (Constructed /\ RateDerived) =>
    /\ Markers[1] = Val(startTime)
    /\ \A i \in 1..(Len(Markers) - 1) :
         Markers[i + 1] - Markers[i] = Val(args.sps) * args.interval
    /\ Markers[Len(Markers)] > Val(endTime)
    /\ \A i \in 1..(Len(Markers) - 1) : Markers[i] <= Val(endTime)
    /\ (IsEndToEnd => (Markers = <<0, 2000, 4000, 6000>> /\ save_count = 4))

\* C2 amended: a rate-derived marker sequence starts at startTime, steps by
\* sps/fps and ends with the first marker that is at or past endTime (a marker
\* equal to endTime ends it); for the end-to-end scenario it is [0,2,4] s with
\* save_count 3.
C2_Markers ==
  (Constructed /\ RateDerived) =>
    /\ Markers[1] = Val(startTime)
    /\ \A i \in 1..(Len(Markers) - 1) :
         Markers[i + 1] - Markers[i] = Val(args.sps) * args.interval
    /\ Markers[Len(Markers)] >= Val(endTime)
    /\ \A i \in 1..(Len(Markers) - 1) : Markers[i] < Val(endTime)
    /\ save_count = Len(Markers)
    /\ (IsEndToEnd => (Markers = <<0, 2000, 4000>> /\ save_count = 3))

C2_Witness == Constructed /\ IsEndToEnd /\ Markers = <<0, 2000, 4000>>

\* ---- C8
\* C8: every marker sequence generated from a rate, in a session whose
\* construction completed, is non-empty, starts at startTime, is uniformly
\* spaced and strictly increasing.
C8_Monotone ==
  (Constructed /\ RateDerived) =>
    /\ Len(Markers) >= 1
    /\ Markers[1] = Val(startTime)
    /\ \A i, j \in 1..(Len(Markers) - 1) :
         Markers[i + 1] - Markers[i] = Markers[j + 1] - Markers[j]
    /\ StrictlyIncreasing(Markers)

C8_Witness == Constructed /\ RateDerived /\ Len(Markers) >= 4
              /\ Markers[2] - Markers[1] = 500

\* ---- C9
\* C9 as stated: construction with a zero or negative rate and no explicit
\* markers always ends with a configuration error: it terminates and gives
\* no session.
C9_RateRejected ==
  (pc # "new" /\ RateDerived /\ Val(args.sps) <= 0) => pc = "failed"

\* ---- C10
\* C10 as stated: with explicit markers, construction fails whenever there are
\* fewer than 2 markers or sps is absent, and otherwise succeeds with
\* save_count the number of markers.
C10_Original ==
  (pc # "new" /\ Explicit) =>
    IF Len(Val(args.time_markers)) < 2 \/ IsNone(args.sps)
      THEN pc = "failed"
      ELSE Constructed /\ save_count = Len(Val(args.time_markers))

\* C10 amended: with explicit markers, construction fails whenever there are
\* fewer than 2 markers, sps is absent, sps is zero, or the first and the last
\* marker are equal; in every other case it succeeds with save_count the
\* number of markers.
C10_Explicit ==
  (pc # "new" /\ Explicit) =>
    LET m == Val(args.time_markers) IN
    IF \/ Len(m) < 2
       \/ IsNone(args.sps)
       \/ Val(args.sps) = 0
       \/ m[1] = m[Len(m)]
      THEN pc = "failed" /\ log = <<>>
      ELSE Constructed /\ save_count = Len(m) /\ time_markers = Some(m)

C10_Witness == Constructed /\ Explicit /\ save_count = 2 /\ Val(args.sps) < 0

\* ---- C4
\* C4: in synchronized mode every tick whose marker
\* markers[frameIndex mod save_count] is greater than endTime decides Hold:
\* the cursor is not moved, no CycleReset step is made and nothing is
\* rendered, at every frameIndex (positive multiples of save_count included)
\* and every cursor position.
C4_HoldOnOverrun ==
  \A i \in 1..Len(log) :
    (~IsNone(time_markers) /\ MarkerOfTick(i) > Val(endTime)) =>
      /\ log[i].decision = "Hold"
      /\ log[i].to = log[i].from
      /\ log[i].reset = 0 /\ log[i].dropped = 0
      /\ log[i].rendered = 0

\* a tick at a positive multiple of save_count, cursor off the first frame,
\* held because its marker is past endTime
C4_Witness ==
  \E i \in 2..Len(log) :
    /\ ~IsNone(time_markers) /\ (i - 1) % save_count = 0
    /\ MarkerOfTick(i) > Val(endTime)
    /\ log[i].from > 1 /\ log[i].decision = "Hold"

\* ---- C3
\* the first position after c whose scan_time is at least ft (0 when none)
FirstAtOrAfter(c, ft) ==
  LET S == {j \in (c + 1)..CacheLen : TimeAt(j) >= ft}
  IN IF S = {} THEN 0 ELSE CHOOSE j \in S : \A k \in S : j <= k

\* C3: in a synchronized tick that is not a cycle-reset tick, over a cache with
\* strictly increasing timestamps and with current().scan_time <= frametime <
\* endTime, the frames after the cursor with scan_time < frametime are passed
\* without rendering and exactly one frame is rendered: the first frame after
\* the tick's starting cursor whose scan_time is >= frametime.  For frames at
\* 0,2,4,6 s, frametime 5 s and the cursor on the first frame, two frames are
\* dropped and the fourth is rendered.
C3_DropCorrect ==
  /\ \A i \in 1..Len(log) :
       ( /\ ~IsNone(time_markers)
         /\ ~((i - 1) % save_count = 0 /\ i - 1 > 0)
         /\ StrictlyIncreasing(rd_files)
         /\ TimeAt(log[i].from) <= MarkerOfTick(i)
         /\ MarkerOfTick(i) < Val(endTime) ) =>
           /\ log[i].decision = "Advance"
           /\ log[i].rendered = FirstAtOrAfter(log[i].from, MarkerOfTick(i))
           /\ log[i].to = log[i].rendered
           /\ log[i].dropped = log[i].rendered - log[i].from - 1
           /\ \A j \in (log[i].from + 1)..(log[i].rendered - 1) :
                TimeAt(j) < MarkerOfTick(i)
  /\ (IsDropScenario /\ Len(log) >= 1) =>
       (log[1].from = 1 /\ log[1].dropped = 2 /\ log[1].rendered = 4)

C3_Witness ==
  /\ IsDropScenario /\ Len(log) >= 1
  /\ MarkerOfTick(1) = 5000 /\ log[1].dropped = 2 /\ TimeAt(log[1].rendered) = 6000

\* ---- C5
\* C5 as stated (sessions with a positive rate): in synchronized mode, whenever a tick's frametime equals
\* current().scan_time (after any CycleReset of that tick) the decision is
\* Advance with a render, never Hold.
C5_Original ==
  \A i \in 1..Len(log) :
    ( /\ ~IsNone(time_markers) /\ ValidRate
      /\ MarkerOfTick(i) = TimeAt(log[i].afterReset) ) =>
        (log[i].decision = "Advance" /\ log[i].rendered # 0)

\* C5 amended: in synchronized mode, whenever a tick's frametime equals
\* current().scan_time (after any CycleReset of that tick) and does not exceed
\* endTime, the decision is Advance with a render, never Hold.
C5_ExactMatch ==
  \A i \in 1..Len(log) :
    ( /\ ~IsNone(time_markers)
      /\ MarkerOfTick(i) = TimeAt(log[i].afterReset)
      /\ MarkerOfTick(i) <= Val(endTime) ) =>
        (log[i].decision = "Advance" /\ log[i].rendered # 0)

\* an exact match on a tick after the first, away from the first frame
C5_Witness ==
  \E i \in 2..Len(log) :
    /\ ~IsNone(time_markers)
    /\ MarkerOfTick(i) = TimeAt(log[i].afterReset)
    /\ log[i].afterReset > 1
    /\ log[i].decision = "Advance"

\* ---- C7
\* tick number i is a cycle-reset tick that gets past the overrun test
ResetTick(i) ==
  /\ ~IsNone(time_markers)
  /\ (i - 1) % save_count = 0 /\ i - 1 > 0
  /\ MarkerOfTick(i) <= Val(endTime)

\* C7 as stated (sessions with a positive rate): at every tick whose frameIndex is a positive multiple of
\* save_count and whose frametime does not exceed endTime, when the
\* CycleReset loop ends startTime <= current().scan_time <= endTime.
C7_Original ==
  \A i \in 1..Len(log) :
    (ResetTick(i) /\ ValidRate) =>
      /\ Val(startTime) <= TimeAt(log[i].afterReset)
      /\ TimeAt(log[i].afterReset) <= Val(endTime)

\* C7 amended: at every such tick, when the CycleReset loop ends
\* current().scan_time is outside the interval (startTime, endTime]; over a
\* cache whose timestamps are non-decreasing it equals startTime, so that
\* startTime <= current().scan_time <= endTime.
C7_CycleReset ==
  \A i \in 1..Len(log) :
    ResetTick(i) =>
      /\ ~(Val(startTime) < TimeAt(log[i].afterReset)
           /\ TimeAt(log[i].afterReset) <= Val(endTime))
      /\ NonDecreasing(rd_files) =>
           /\ TimeAt(log[i].afterReset) = Val(startTime)
           /\ Val(startTime) <= TimeAt(log[i].afterReset)
           /\ TimeAt(log[i].afterReset) <= Val(endTime)

\* a cycle-reset tick whose loop moved the cursor twice, wrapping to the
\* first frame of a sorted cache
C7_Witness ==
  \E i \in 1..Len(log) :
    /\ ResetTick(i) /\ StrictlyIncreasing(rd_files)
    /\ log[i].reset >= 2 /\ log[i].afterReset = 1

\* ---- C1
\* scan_time of the frame tick number i rendered
RenderedTime(i) == TimeAt(log[i].rendered)

\* C1 as stated: in the end-to-end scenario (frames at 0,1,2,3,4 s, sps=2,
\* fps=1) ticks 0, 1 and 2 each decide Advance and render the frames at 0, 2
\* and 4 s, and tick 3 decides Hold.
C1_Original ==
  (IsEndToEnd /\ Len(log) >= 4) =>
    /\ \A i \in 1..3 : log[i].decision = "Advance"
    /\ RenderedTime(1) = 0 /\ RenderedTime(2) = 2000 /\ RenderedTime(3) = 4000
    /\ log[4].decision = "Hold"

\* C1 amended: in the end-to-end scenario the markers are 0, 2, 4 s; ticks 0, 1
\* and 2 each decide Advance, each moving the cursor one frame forward without
\* dropping, and render the frames at 1, 2 and 3 s; tick 3 is a cycle-reset
\* tick: it moves the cursor over the last frame back to the first and decides
\* Advance, rendering the frame at 1 s.
C1_EndToEnd ==
  (IsEndToEnd /\ Constructed) =>
    /\ Markers = <<0, 2000, 4000>>
    /\ (Len(log) = 0 => rd_curr = 1)
    /\ \A i \in 1..3 : Len(log) >= i =>
         /\ log[i].decision = "Advance"
         /\ log[i].from = i /\ log[i].to = i + 1
         /\ log[i].dropped = 0 /\ log[i].reset = 0
         /\ RenderedTime(i) = i * 1000
    /\ Len(log) >= 4 =>
         /\ log[4].decision = "Advance"
         /\ log[4].reset = 2 /\ log[4].afterReset = 1
         /\ RenderedTime(4) = 1000

C1_Witness ==
  /\ IsEndToEnd /\ Len(log) >= 4
  /\ log[3].decision = "Advance" /\ RenderedTime(3) = 3000
  /\ log[4].decision = "Advance"

FirstsBefore(i) == Cardinality({f \in 1..Len(first_log) : first_log[f].at < i})

LastOutcome == log[Len(log)]

\* C11: over a cache that is not cyclable, a tick in which next() raised ends
\* the session with that error and not as a Hold: it draws nothing, leaves the
\* render objects, their keywords and the queued axes as they were, and leaves
\* the cursor on the last frame, the frame it had reached without wrapping; a
\* tick that holds is one whose marker is past endTime or before the current
\* frame, and a tick that advances found a frame after the cursor; over a
\* cyclable cache no tick raises; firstframe, which advances without a test,
\* raises in the same way when called with the cursor on the last frame of a
\* cache that is not cyclable
C11_Exhaustion ==
  [][/\ (log' # log) =>
       LET o == log'[Len(log')] IN
       /\ o.decision = "Error" =>
            /\ ~rd_cyclable
            /\ pc' = "stopped" /\ err' = "StopIteration"
            /\ o.rendered = 0
            /\ ims' = ims /\ im_kwargs' = im_kwargs /\ new_axes' = new_axes
            /\ rd_curr' = o.to /\ o.to = CacheLen
            /\ o.to = o.from + o.reset + o.dropped
       /\ o.decision = "Hold" =>
            /\ ~IsNone(o.frametime)
            /\ \/ Val(o.frametime) > Val(endTime)
               \/ Val(o.frametime) < TimeAt(o.afterReset)
       /\ (o.decision = "Advance" /\ ~rd_cyclable) =>
            /\ o.afterDrop < CacheLen
            /\ o.to = o.afterDrop + 1
       /\ (CacheLen = 1 /\ ~rd_cyclable /\ o.decision # "Hold") =>
            o.decision = "Error" /\ ims' = ims
     /\ (first_log' # first_log) =>
          LET o == first_log'[Len(first_log')] IN
          IF ~rd_cyclable /\ rd_curr = CacheLen
            THEN /\ o.decision = "Error" /\ o.rendered = 0
                 /\ pc' = "stopped" /\ err' = "StopIteration"
                 /\ ims' = ims /\ im_kwargs' = im_kwargs /\ new_axes' = new_axes
                 /\ rd_curr' = rd_curr
            ELSE o.decision = "Advance" /\ rd_curr' = NextPos(rd_curr)
    ]_vars

\* a session over a cache that is not cyclable stopped by the error with a
\* render object drawn and an axes still queued
C11_Witness ==
  /\ pc = "stopped" /\ err = "StopIteration"
  /\ ~rd_cyclable
  /\ Len(log) >= 1
  /\ LastOutcome.decision = "Error"
  /\ Len(ims) >= 1
  /\ Len(new_axes) >= 1

\* ---- C12
\* some tick of the session so far decided Advance
HasAdvanced == \E i \in 1..Len(log) : log[i].decision = "Advance"
\* the firstframe calls that advanced and drew
FirstDraws == {f \in 1..Len(first_log) : first_log[f].decision = "Advance"}
\* _advance_anim has drawn, for a tick or for firstframe
HasDrawn == HasAdvanced \/ FirstDraws # {}

\* C12: when add_axes has not been called by the time firstframe or a tick
\* has advanced and drawn, the animation has drawn on the current axes, so
\* exactly one render object exists
C12_DefaultAxes ==
  (Constructed /\ registered = <<>> /\ HasDrawn) => Len(ims) = 1

\* ---- C13
\* the render objects on ax made with kw, the queued entries for ax with kw,
\* and the add_axes calls that gave ax with kw
Drawn(ax, kw) ==
  Cardinality({i \in 1..Len(ims) : ims[i].axes = ax /\ ims[i].kwargs = kw})
Queued(ax, kw) ==
  Cardinality({i \in 1..Len(new_axes) : new_axes[i] = <<ax, kw>>})
Registered(ax, kw) ==
  Cardinality({i \in 1..Len(registered) :
                 registered[i].axes = ax /\ registered[i].kwargs = kw})
\* the latest tick that decided Advance, and the position of the frame it drew
LastAdvance == CHOOSE i \in 1..Len(log) :
                 /\ log[i].decision = "Advance"
                 /\ \A j \in (i + 1)..Len(log) : log[j].decision # "Advance"
LastRendered == log[LastAdvance].rendered
\* the latest firstframe call that drew
LastFirstDraw == CHOOSE f \in FirstDraws : \A g \in FirstDraws : g <= f
\* the position of the frame _advance_anim drew last, for a tick or for
\* firstframe: a firstframe call made after at ticks comes after tick at
LastDrawn ==
  IF FirstDraws # {} /\ (HasAdvanced => first_log[LastFirstDraw].at >= LastAdvance)
    THEN first_log[LastFirstDraw].rendered
    ELSE LastRendered

\* C13: in robust mode, after any add_axes calls, firstframe calls and ticks,
\* every render object was made by the latest draw on that frame's grid, the render
\* objects and the kept keywords have equal length and agree entry by entry,
\* and each add_axes call is there exactly once with its own axes and
\* keywords, as a render object or as a queued entry
C13_RobustRecreate ==
  (Constructed /\ robust) =>
    /\ Len(ims) = Len(im_kwargs)
    /\ \A i \in 1..Len(ims) : ims[i].kwargs = im_kwargs[i]
    /\ \A ax \in Axes, kw \in Kwargs :
         Drawn(ax, kw) + Queued(ax, kw) = Registered(ax, kw)
    /\ \A i \in 1..Len(ims) :
         /\ HasDrawn
         /\ ims[i].grid = LastDrawn
         /\ ims[i].frame = LastDrawn

\* a robust session that drew one axes, had a second one with other keywords
\* registered after the first tick, and tore down and redrew both on a later
\* frame
C13_Witness ==
  /\ pc = "ready" /\ robust
  /\ Len(registered) = 2
  /\ registered[1].at = 0 /\ registered[2].at >= 1
  /\ registered[1].axes # registered[2].axes
  /\ registered[1].kwargs # registered[2].kwargs
  /\ Len(ims) = 2 /\ new_axes = <<>>
  /\ log[1].decision = "Advance"
  /\ LastAdvance > registered[2].at + 1
  /\ LastRendered # log[1].rendered

\* ---- C14
\* a tick after the add_axes call number k decided Advance, or a
\* firstframe call after it advanced
AdvancedSince(k) ==
  \/ \E i \in (registered[k].at + 1)..Len(log) : log[i].decision = "Advance"
  \/ \E f \in FirstDraws : first_log[f].seq >= k
\* the add_axes calls no Advance has followed
Pending == {k \in 1..Len(registered) : ~AdvancedSince(k)}

\* C14: in both modes an axes given to add_axes has no render object and is
\* queued, in call order, for as long as no tick after the call has decided
\* Advance, ticks that hold included; once one has, the axes has exactly one
\* render object and is queued no more, so the queue is empty after every
\* Advance
C14_QueuedUntilAdvance ==
  Constructed =>
    /\ Len(new_axes) = Cardinality(Pending)
    /\ \A j \in 1..Len(new_axes) :
         LET k == Len(registered) - Len(new_axes) + j IN
         /\ k \in Pending
         /\ new_axes[j] = <<registered[k].axes, registered[k].kwargs>>
    /\ Len(ims) = Len(registered) - Cardinality(Pending)
    /\ \A ax \in Axes, kw \in Kwargs :
         Drawn(ax, kw) =
           Cardinality({k \in 1..Len(registered) \ Pending :
                          registered[k].axes = ax /\ registered[k].kwargs = kw})
    /\ (Len(log) >= 1 /\ LastOutcome.decision = "Advance"
          /\ \A k \in 1..Len(registered) : registered[k].at < Len(log))
         => new_axes = <<>>

\* an axes registered after the first tick stayed queued through a tick
\* that held and was drawn by the Advance after it, next to the axes drawn
\* from the start
C14_Witness ==
  /\ pc = "ready"
  /\ Len(registered) = 2
  /\ registered[1].at = 0 /\ registered[2].at >= 1
  /\ log[1].decision = "Advance"
  /\ Len(log) = registered[2].at + 2
  /\ log[registered[2].at + 1].decision = "Hold"
  /\ log[registered[2].at + 2].decision = "Advance"
  /\ Len(ims) = 2 /\ new_axes = <<>>

\* ---- C15
\* C15 (as stated): the first tick of every constructed session decides
\* Advance and draws, whether the session is unsynchronized, rate-derived or
\* built from explicit markers; here over sessions whose rate, when given, is
\* positive and whose cache has strictly increasing scan times
C15_Original ==
  (Constructed /\ ValidRate /\ StrictlyIncreasing(args.files) /\ Len(log) >= 1) =>
    log[1].decision = "Advance" /\ log[1].rendered # 0

\* C15 (amended): the first tick goes through the same tests as every other
\* tick. It decides Advance and draws the second frame of the cache in an
\* unsynchronized session; in a synchronized one it decides Advance exactly
\* when startTime <= markers[0] <= endTime and Hold otherwise, so a
\* rate-derived session (markers[0] = startTime) advances when
\* startTime <= endTime, and a session with explicit markers holds when its
\* first marker is before startTime or after endTime; this with no firstframe
\* call made before the tick
C15_FirstTick ==
  (Constructed /\ Len(log) >= 1 /\ FirstsBefore(1) = 0) =>
    /\ log[1].from = 1 /\ log[1].reset = 0
    /\ IF Unsynchronized \/ (Val(startTime) <= Markers[1] /\ Markers[1] <= Val(endTime))
         THEN /\ log[1].decision = "Advance"
              /\ log[1].rendered = log[1].to /\ log[1].rendered # 0
              /\ Unsynchronized => log[1].rendered = NextPos(1)
         ELSE log[1].decision = "Hold" /\ log[1].rendered = 0 /\ log[1].to = 1
    /\ (RateDerived /\ Val(startTime) <= Val(endTime)) => log[1].decision = "Advance"

\* the first tick of a session with explicit markers whose first marker, 0,
\* is before the first frame, at 1 s: the tick held
C15_Witness ==
  /\ pc = "ready" /\ Explicit
  /\ Len(log) = 1
  /\ args.files = <<1000, 2000>>
  /\ Markers[1] = 0
  /\ log[1].decision = "Hold"

\* ---- C16
\* C16 (as stated): every tick of a synchronized session that holds leaves
\* the cursor where it was when the tick began, ticks at a positive multiple
\* of save_count and sessions with explicit markers included; here over
\* caches with strictly increasing scan times and a positive rate
C16_Original ==
  (Constructed /\ ~Unsynchronized /\ ValidRate /\ StrictlyIncreasing(args.files)) =>
    \A i \in 1..Len(log) :
      log[i].decision = "Hold" => log[i].to = log[i].from

\* C16 (amended): a tick that holds draws nothing, drops nothing and leaves
\* the cursor where the CycleReset loop left it: that is where the tick began
\* when the tick is not at a positive multiple of save_count, when its marker
\* is past endTime, and in every rate-derived session over a cache with
\* non-decreasing scan times; at a positive multiple of save_count the loop
\* may have moved the cursor before the tick holds, as it does when the first
\* explicit marker is before startTime
C16_HoldCursor ==
  (Constructed /\ ~Unsynchronized) =>
    \A i \in 1..Len(log) :
      log[i].decision = "Hold" =>
        /\ log[i].rendered = 0
        /\ log[i].dropped = 0
        /\ log[i].to = log[i].afterReset
        /\ log[i].reset = 0 => log[i].to = log[i].from
        /\ ~ResetTick(i) => log[i].reset = 0
        /\ MarkerOfTick(i) > Val(endTime) => log[i].reset = 0
        /\ (RateDerived /\ NonDecreasing(args.files)) => log[i].to = log[i].from

\* a tick at a positive multiple of save_count, over a cache with strictly
\* increasing scan times, whose CycleReset loop moved the cursor and which
\* then held
C16_Witness ==
  /\ pc = "ready" /\ Explicit
  /\ StrictlyIncreasing(args.files)
  /\ Len(log) >= 1
  /\ ResetTick(Len(log))
  /\ LastOutcome.decision = "Hold"
  /\ LastOutcome.reset >= 1
  /\ LastOutcome.to # LastOutcome.from

\* ---- C17
\* the positions the CycleReset and Drop loops of tick i moved the cursor
\* onto and off again
PassedOver(i) ==
  {((log[i].from - 1 + n) % CacheLen) + 1 :
     n \in 1..(log[i].reset + log[i].dropped)}

\* C17 (as stated): a tick draws only when it decides Advance, and then one
\* frame: the frame under the cursor when the tick ends, and none of the
\* frames its CycleReset and Drop loops moved over
C17_Original ==
  Constructed =>
    \A i \in 1..Len(log) :
      IF log[i].decision = "Advance"
        THEN /\ log[i].rendered = log[i].to
             /\ log[i].rendered \notin PassedOver(i)
        ELSE log[i].rendered = 0

\* C17 (amended): a tick draws only when it decides Advance, and then one
\* frame, after both loops: the frame its last next() returned, which is the
\* frame under the cursor when the tick ends. That frame is one the loops of
\* the tick moved over exactly when the two loops together made as many
\* next() calls as the cache has frames or more, the cursor going round the
\* whole cache; a tick without reset never does. firstframe draws the frame
\* after the cursor; every render object shows the frame drawn last, and the
\* cursor stays where a tick or a firstframe call left it
C17_RenderLast ==
  Constructed =>
    /\ \A i \in 1..Len(log) :
         IF log[i].decision = "Advance"
           THEN /\ log[i].rendered = log[i].to
                /\ log[i].rendered \in 1..CacheLen
                /\ log[i].rendered = NextPos(log[i].afterDrop)
                /\ (log[i].rendered \in PassedOver(i))
                     <=> (log[i].reset + log[i].dropped >= CacheLen)
                /\ log[i].reset = 0 => log[i].rendered \notin PassedOver(i)
           ELSE log[i].rendered = 0
    /\ \A f \in 1..Len(first_log) :
         IF first_log[f].decision = "Advance"
           THEN /\ first_log[f].rendered = first_log[f].to
                /\ first_log[f].rendered = NextPos(first_log[f].from)
           ELSE first_log[f].rendered = 0 /\ first_log[f].to = first_log[f].from
    /\ \A k \in 1..Len(ims) : HasDrawn /\ ims[k].frame = LastDrawn
    /\ (Len(log) >= 1 /\ FirstsBefore(Len(log) + 1) = FirstsBefore(Len(log))) =>
         rd_curr = LastOutcome.to
    /\ (Len(first_log) >= 1 /\ first_log[Len(first_log)].at = Len(log)) =>
         rd_curr = first_log[Len(first_log)].to
    /\ (Len(log) >= 1 /\ LastOutcome.decision = "Advance"
          /\ FirstsBefore(Len(log) + 1) = FirstsBefore(Len(log))) =>
         LastDrawn = rd_curr

\* the fifth tick of the full-circle session: the CycleReset loop moved the
\* cursor from frame 2 over frame 3 to frame 1, the Drop loop moved it to
\* frame 2, and the tick drew frame 3
C17_Witness ==
  /\ pc = "ready"
  /\ args.files = FullCircleFiles
  /\ Len(log) = 5
  /\ LastOutcome.decision = "Advance"
  /\ LastOutcome.from = 2
  /\ LastOutcome.reset = 2
  /\ LastOutcome.dropped = 1
  /\ LastOutcome.rendered = 3
  /\ 3 \in PassedOver(5)
  /\ rd_curr = 3

\* ---- C18
\* next() raised in the CycleReset loop of tick i: the loop was not done
RaisedInReset(i) ==
  /\ ResetTick(i)
  /\ Val(startTime) < TimeAt(log[i].afterReset)
  /\ TimeAt(log[i].afterReset) <= Val(endTime)

\* C18: whatever the scan times of the cache, sorted or not, and whatever
\* the marker, the Drop loop of a tick makes fewer next() calls than the
\* cache has frames, moves the cursor forward only and never onto the last
\* frame, so it neither wraps a cyclable cache nor raises on one that is not
\* cyclable: a tick that ends in the error raised it in its CycleReset loop
\* or in the rendering advance, with its Drop loop finished
C18_DropBounded ==
  Constructed =>
    \A i \in 1..Len(log) :
      /\ log[i].dropped >= 0
      /\ log[i].dropped < CacheLen
      /\ log[i].afterDrop = log[i].afterReset + log[i].dropped
      /\ log[i].dropped >= 1 =>
           /\ log[i].afterDrop < CacheLen
           /\ log[i].decision = "Advance"
           /\ log[i].to = log[i].afterDrop + 1
      /\ (log[i].decision = "Error" /\ ~IsNone(log[i].frametime) /\ ~RaisedInReset(i)) =>
           ~(/\ TimeAt(NextPos(log[i].afterDrop)) < Val(log[i].frametime)
             /\ Val(log[i].frametime) < Val(endTime))

\* over a cache whose scan times are not sorted and which is not cyclable, a
\* tick dropped a frame and advanced
C18_Witness ==
  /\ Constructed
  /\ ~rd_cyclable
  /\ ~NonDecreasing(args.files)
  /\ Len(log) >= 1
  /\ LastOutcome.dropped >= 1
  /\ LastOutcome.decision = "Advance"

\* ---- C19
\* C19: in a rate-derived session over the cyclable cache with strictly
\* increasing scan times, every tick at a positive multiple of save_count
\* ends its CycleReset loop, without an error and in fewer next() calls than
\* the cache has frames, with the cursor on the first frame; so the ticks
\* repeat with period save_count: tick i + save_count decides as tick i did
\* and draws the same frame, when only the ticks move the cursor (no
\* firstframe call)
C19_Periodic ==
  (Constructed /\ RateDerived /\ rd_cyclable /\ StrictlyIncreasing(args.files)
     /\ first_log = <<>>) =>
    /\ \A i \in 1..Len(log) :
         /\ log[i].decision # "Error"
         /\ ((i - 1) % save_count = 0 /\ i > 1) =>
              /\ log[i].afterReset = 1
              /\ log[i].reset < CacheLen
              /\ log[i].reset = (IF log[i].from = 1 THEN 0
                                 ELSE CacheLen + 1 - log[i].from)
    /\ \A i, j \in 1..Len(log) :
         j = i + save_count =>
           /\ log[j].decision = log[i].decision
           /\ log[j].rendered = log[i].rendered
           /\ log[j].to = log[i].to

\* two full periods of a rate-derived session of period two or more, with a
\* tick that held and a CycleReset loop that moved the cursor
C19_Witness ==
  /\ pc = "ready" /\ RateDerived
  /\ StrictlyIncreasing(args.files)
  /\ save_count >= 2
  /\ Len(log) >= 2 * save_count
  /\ \E i \in 1..Len(log) : log[i].decision = "Hold"
  /\ \E i \in 1..Len(log) : log[i].reset >= 1
  /\ log[save_count + 1].rendered = log[1].rendered

\* ---- C20
\* C20: a RadarDisplay over a cache of N frames, after any next() and prev()
\* calls, has frameIndex within 0..N-1 and equal to the forward steps minus
\* the backward steps it made the cache take; the cursor is frameIndex
\* frames after the first frame and the display shows that frame, so no call
\* wrapped the cache or raised; with frameIndex on N-1, next() moves neither
\* frameIndex nor the cursor, and with frameIndex on 0 neither does prev()
C20_DisplayIndex ==
  [][(pc = "display" /\ display' # display) =>
       /\ pc' = "display" /\ err' = "none"
       /\ display'.frameIndex \in 0..(CacheLen - 1)
       /\ display'.frameIndex = display'.forward - display'.backward
       /\ rd_curr' = display'.frameIndex + 1
       /\ display'.shown = rd_curr'
       /\ display'.curr_time = Some(TimeAt(rd_curr'))
       /\ display'.forward > display.forward =>
            /\ display.frameIndex < CacheLen - 1
            /\ rd_curr' = rd_curr + 1
       /\ display'.backward > display.backward =>
            /\ display.frameIndex > 0
            /\ rd_curr' = rd_curr - 1
       /\ display'.refused > display.refused =>
            /\ display.frameIndex \in {0, CacheLen - 1}
            /\ display'.frameIndex = display.frameIndex
            /\ rd_curr' = rd_curr
    ]_vars

\* a display over three frames that stepped to the last frame, had a next()
\* there and, back on the first frame, a prev() there change nothing
C20_Witness ==
  /\ pc = "display"
  /\ CacheLen = 3
  /\ display.forward = 2 /\ display.backward = 2
  /\ display.refused >= 1
  /\ display.frameIndex = 0 /\ rd_curr = 1

====
